---------------------------- MODULE Spec2Model ----------------------------
(***************************************************************************)
(* Driver-document lifecycle of vehealth-compliance-infra-services.        *)
(*                                                                         *)
(* Three Lambda handlers share two relational tables:                      *)
(*   document-review  (src/modules/compute/outputs.tf, lines 20-379)       *)
(*   document-expiry  (src/unnamed/part_006)                               *)
(*   document-upload  (src/modules/compute/lambda/functions/               *)
(*                     document-upload/index.js)                           *)
(*                                                                         *)
(* driver_documents and driver_profiles are modelled as the committed      *)
(* tables `docs` and `profiles`.  A review runs BEGIN .. COMMIT on its own *)
(* connection: its writes are kept in the invocation's transaction record  *)
(* until COMMIT (PostgreSQL READ COMMITTED: a statement sees the committed *)
(* rows plus the transaction's own writes, and an UPDATE of a row written  *)
(* by another open transaction waits for that transaction to end).  The    *)
(* expiry handler issues autocommit statements, one step each.             *)
(***************************************************************************)
EXTENDS Integers, Sequences, FiniteSets, TLC

VARIABLES
    docs,       \* committed driver_documents: document id -> row
    profiles,   \* committed driver_profiles: driver id -> row
    now,        \* the database clock (NOW(), CURRENT_DATE), in days
    ops,        \* handler invocations started so far
    rpc,        \* review invocation -> position in handleReviewDocument
    rreq,       \* review invocation -> the request being served
    rtx,        \* review invocation -> its open transaction
    resp,       \* review invocation -> statusCode of its last response
    spc,        \* position of the expiry handler
    sst,        \* locals of the expiry handler (results, expiredDocs, ...)
    grants,     \* pre-signed URLs the upload handler has returned, in order
    uresp,      \* the last response of the upload handler
    vq          \* the verification query between its two SELECTs

vars == <<docs, profiles, now, ops, rpc, rreq, rtx, resp, spc, sst, grants, uresp, vq>>

\* the state of the upload handler, which review and expiry leave alone
uvars == <<grants, uresp, vq>>

---------------------------------------------------------------------------
(* Bounds of the model *)

MaxTime == 1
MaxOps == 2

---------------------------------------------------------------------------
(* Values *)

Null == "NULL"
NullTime == 0 - 1
NoRow == [exists |-> FALSE]

Drivers == {"d1", "d2"}
Reviewers == {"a1", "a2"}
DocIds == {"doc1", "doc2", "doc3", "doc4", "doc5"}
MissingDocId == "doc0"

requiredDocs == {"license", "insurance", "registration", "profile_photo"}
validStatuses == {"approved", "rejected", "pending", "processing"}
columnMap == {"license", "insurance", "registration", "inspection", "profile_photo"}

---------------------------------------------------------------------------
(* Strings that the code takes apart are sequences of characters *)

RoleAdmin == <<"a", "d", "m", "i", "n">>
RoleDriver == <<"d", "r", "i", "v", "e", "r">>
RoleSubadmin == <<"s", "u", "b">> \o RoleAdmin
Comma == <<",">>

\* String.prototype.includes
Includes(s, sub) ==
    \E k \in 0 .. (Len(s) - Len(sub)) : SubSeq(s, k + 1, k + Len(sub)) = sub

\* String.prototype.split(',') : the list of the pieces between commas
RECURSIVE SplitFrom(_, _, _)
SplitFrom(s, k, cur) ==
    IF k > Len(s) THEN <<cur>>
    ELSE IF <<s[k]>> = Comma THEN <<cur>> \o SplitFrom(s, k + 1, <<>>)
    ELSE SplitFrom(s, k + 1, Append(cur, s[k]))

Split(s) == SplitFrom(s, 1, <<>>)

\* claims['custom:roles'] of the callers; <<>> is an absent (or empty) claim
RolesClaims ==
    { <<>>, RoleAdmin, RoleDriver, RoleDriver \o Comma \o RoleAdmin, RoleSubadmin }

\* extractUserFromEvent: roles and isAdmin of the caller
extractRoles(rolesClaim) ==
    IF rolesClaim # <<>> THEN Split(rolesClaim) ELSE <<>>

isAdmin(rolesClaim) ==
    rolesClaim # <<>> /\ Includes(rolesClaim, RoleAdmin)

---------------------------------------------------------------------------
(* Rows *)

\* the characters fileName.replace(/[^a-zA-Z0-9._-]/g, '_') keeps
SafeChars == {"a", "b", "c", ".", "_", "-"}

sanitizedFileName(fileName) ==
    [ k \in 1 .. Len(fileName) |-> IF fileName[k] \in SafeChars THEN fileName[k] ELSE "_" ]

\* the S3 key of generatePresignedUrl, by its parts: [tenantId/]driverId/
\* documentType/timestamp_sanitizedFileName.  The timestamp (date and
\* Date.now()) is the clock instant of the call.
s3Key(tenantId, driverId, documentType, t, fileName) ==
    [ tenant |-> IF tenantId # Null /\ tenantId # "" THEN tenantId ELSE Null,
      driver |-> driverId, type |-> documentType,
      timestamp |-> t, file |-> sanitizedFileName(fileName) ]

\* the file name of the documents uploaded before the first modelled invocation
InitFileName == <<"c">>

\* a driver_documents row right after createDocumentRecord.  stamped_by is
\* not a column: it names the review call that wrote verified_at.
PendingRow(driver, type, t) ==
    [ driver_id |-> driver, document_type |-> type, status |-> "pending",
      tenant_id |-> Null, s3_key |-> s3Key(Null, driver, type, t, InitFileName),
      created_at |-> t,
      document_number |-> Null,
      expiry_date |-> NullTime, rejection_reason |-> Null, notes |-> Null,
      verified_by |-> Null, verified_at |-> NullTime,
      expiration_notified_at |-> NullTime, updated_at |-> t,
      stamped_by |-> Null ]

\* JavaScript truthiness of an optional body field
Truthy(v) == v # Null /\ v # ""
OrNull(v) == IF Truthy(v) THEN v ELSE Null
Coalesce(new, old) == IF new # NullTime THEN new ELSE old
TextAlwaysReplaced(new, old) == OrNull(new)

\* COALESCE($5, document_number) with $5 = reviewData.documentNumber || null
CoalesceText(new, old) == IF OrNull(new) # Null THEN new ELSE old


\* the UPDATE of updateDocumentStatus applied to one row; NOW() is t
UpdatedDocument(row, body, reviewerId, t) ==
    [ row EXCEPT
        !.status = body.status,
        !.verified_at = IF body.status \in {"approved", "rejected"} THEN t ELSE @,
        !.stamped_by = IF body.status \in {"approved", "rejected"} THEN reviewerId ELSE @,
        !.verified_by = reviewerId,
        !.rejection_reason = OrNull(body.rejectionReason),
        !.notes = OrNull(body.notes),
        !.document_number = CoalesceText(body.documentNumber, @),
        !.expiry_date = Coalesce(body.expiryDate, @),
        !.updated_at = t ]

\* document types of the driver's approved required documents (the SELECT of
\* checkAllDocumentsApproved and of updateDriverProfilesForExpiredDocs)
approvedDocs(table, driverId) ==
    { table[id].document_type :
        id \in { x \in DOMAIN table :
                    /\ table[x].driver_id = driverId
                    /\ table[x].document_type \in requiredDocs
                    /\ table[x].status = "approved" } }

allApproved(table, driverId) == requiredDocs \subseteq approvedDocs(table, driverId)

missingDocuments(table, driverId) == requiredDocs \ approvedDocs(table, driverId)

\* the UPDATE of updateDriverProfile
ProfileWithDocument(row, documentType, documentId, t) ==
    [ row EXCEPT !.refs[documentType] = documentId, !.updated_at = t ]

\* the UPDATE of checkAllDocumentsApproved
ProfileCompleted(row, t) ==
    [ row EXCEPT
        !.documents_complete = TRUE,
        !.documents_verified_at = t,
        !.status = IF @ = "pending_documents" THEN "active" ELSE @,
        !.updated_at = t ]

\* checkAllDocumentsApproved as one function of the rows it reads: the
\* profile row it leaves, whether it wrote it, and what it returns
checkAllDocumentsApproved(table, row, driverId, t) ==
    IF allApproved(table, driverId)
    THEN [ profile |-> ProfileCompleted(row, t), wrote |-> TRUE,
           allDocumentsApproved |-> TRUE, missingDocuments |-> {} ]
    ELSE [ profile |-> row, wrote |-> FALSE,
           allDocumentsApproved |-> FALSE,
           missingDocuments |-> missingDocuments(table, driverId) ]

ProfileIncompleteAnyStatus(row, t) ==
    [ row EXCEPT
        !.documents_complete = FALSE,
        !.status = "pending_documents",
        !.updated_at = t ]

\* the UPDATE of updateDriverProfilesForExpiredDocs
ProfileIncomplete(row, t) ==
    [ row EXCEPT
        !.documents_complete = FALSE,
        !.status = IF @ = "active" THEN "pending_documents" ELSE @,
        !.updated_at = t ]

---------------------------------------------------------------------------
(* The tables before the first modelled invocation: uploads and reviews    *)
(* that ended at time 0.  Driver d1 has uploaded the four required         *)
(* documents and reviewer a1 has approved the first two, three or four of  *)
(* them; driver d2 has one approved document of a type that is not         *)
(* required.  Every approved document got the expiry date 0, or, in one    *)
(* more table, only doc3 got one.  The profile rows are what those         *)
(* approving reviews left.                                                 *)

InitOwner == [ doc1 |-> "d1", doc2 |-> "d1", doc3 |-> "d1", doc4 |-> "d1", doc5 |-> "d2" ]
InitType ==
    [ doc1 |-> "license", doc2 |-> "insurance", doc3 |-> "registration",
      doc4 |-> "profile_photo", doc5 |-> "license_back" ]

ApprovedRow(driver, type, expiry) ==
    UpdatedDocument(PendingRow(driver, type, 0),
                    [ status |-> "approved", rejectionReason |-> Null, notes |-> Null,
                      documentNumber |-> "N1", expiryDate |-> expiry ],
                    "a1", 0)

\* every document approved, and only doc3 was given an expiry date
OneExpiryTable ==
    [ id \in DocIds |->
        ApprovedRow(InitOwner[id], InitType[id], IF id = "doc3" THEN 0 ELSE NullTime) ]

InitTables ==
    { [ id \in DocIds |->
          IF id \in approved THEN ApprovedRow(InitOwner[id], InitType[id], 0)
          ELSE PendingRow(InitOwner[id], InitType[id], 0) ] :
        approved \in { {"doc1", "doc2", "doc5"}, {"doc1", "doc2", "doc3", "doc5"},
                       {"doc1", "doc2", "doc3", "doc4", "doc5"} } }
      \cup {OneExpiryTable}

\* a driver_profiles row as the external owner creates it
NewProfile(status) ==
    [ documents_complete |-> FALSE, documents_verified_at |-> NullTime,
      status |-> status, updated_at |-> 0,
      refs |-> [ c \in columnMap |-> Null ] ]

\* the profile after the reviews that approved the driver's documents in `table`
InitProfile(table, driverId, status) ==
    LET withRefs ==
            [ NewProfile(status) EXCEPT
                !.refs = [ c \in columnMap |->
                             IF \E id \in DOMAIN table :
                                    /\ table[id].driver_id = driverId
                                    /\ table[id].document_type = c
                                    /\ table[id].status = "approved"
                             THEN CHOOSE id \in DOMAIN table :
                                    /\ table[id].driver_id = driverId
                                    /\ table[id].document_type = c
                                    /\ table[id].status = "approved"
                             ELSE Null ] ]
    IN  IF allApproved(table, driverId) THEN ProfileCompleted(withRefs, 0) ELSE withRefs

InitStatus == [ d1 |-> "pending_documents", d2 |-> "suspended" ]

\* start, document, profile: the open transaction's NOW() and its uncommitted
\* rows.  The other fields record what the invocation did: whether
\* checkAllDocumentsApproved ran and what it found, whether the document
\* entered or left approved, whether the other invocation was inside a
\* transaction on the same document at COMMIT, and whether ROLLBACK undid a
\* written document row.
NoTx ==
    [ start |-> NullTime, document |-> NoRow, profile |-> NoRow,
      allApproved |-> FALSE, recomputed |-> FALSE, moved |-> FALSE,
      overlapped |-> FALSE, undone |-> FALSE ]

NoRequest == [ documentId |-> Null, body |-> NoRow ]

\* the upload handler has answered nothing yet and serves no query
NoResponse == [ statusCode |-> 0, error |-> Null ]
NoQuery == [ driverId |-> Null ]

NoSweep ==
    [ expiredDocs |-> {}, driverIds |-> [ d \in Drivers |-> 0 ], current |-> Null,
      recomputed |-> <<>>, updatedProfiles |-> 0, expiringDocs |-> {},
      expiredDocuments |-> 0, expiringDocuments |-> 0, notificationsSent |-> 0,
      profilesUpdated |-> 0, errors |-> 0, statusCode |-> 0 ]

Init ==
    /\ docs \in InitTables
    /\ profiles = [ d \in Drivers |-> InitProfile(docs, d, InitStatus[d]) ]
    /\ now = 0
    /\ ops = 0
    /\ rpc = [ i \in Reviewers |-> "idle" ]
    /\ rreq = [ i \in Reviewers |-> NoRequest ]
    /\ rtx = [ i \in Reviewers |-> NoTx ]
    /\ resp = [ i \in Reviewers |-> [ statusCode |-> 0, error |-> Null ] ]
    /\ spc = "idle"
    /\ sst = NoSweep
    /\ grants = <<>>
    /\ uresp = NoResponse
    /\ vq = NoQuery

---------------------------------------------------------------------------
(* document-review: PUT /admin/documents/{documentId}/review               *)

\* request bodies of the reviewers
ReviewBodies ==
    { [ status |-> "approved", rejectionReason |-> Null, notes |-> Null,
        documentNumber |-> Null, expiryDate |-> NullTime ],
      [ status |-> "approved", rejectionReason |-> "blurry", notes |-> "seen",
        documentNumber |-> "N2", expiryDate |-> 0 ],
      [ status |-> "rejected", rejectionReason |-> "blurry", notes |-> Null,
        documentNumber |-> Null, expiryDate |-> NullTime ],
      [ status |-> "rejected", rejectionReason |-> "", notes |-> "seen",
        documentNumber |-> Null, expiryDate |-> NullTime ],
      [ status |-> "rejected", rejectionReason |-> Null, notes |-> Null,
        documentNumber |-> Null, expiryDate |-> 0 ],
      [ status |-> "pending", rejectionReason |-> Null, notes |-> Null,
        documentNumber |-> Null, expiryDate |-> NullTime ],
      [ status |-> "processing", rejectionReason |-> "blurry", notes |-> Null,
        documentNumber |-> "", expiryDate |-> NullTime ],
      [ status |-> "under_review", rejectionReason |-> Null, notes |-> Null,
        documentNumber |-> Null, expiryDate |-> NullTime ] }

\* the documents the reviewers address: doc1 and doc2 are like doc3 in the
\* initial tables, up to the name of their type
DocumentIdInputs == {"doc3", "doc4", "doc5", MissingDocId}

Response(code, error) == [ statusCode |-> code, error |-> error ]

Forbidden == Response(403, "Forbidden: Admin access required")
InvalidStatus == Response(400, "Invalid status")
ReasonRequired == Response(400, "rejectionReason is required when status is rejected")
Reviewed == Response(200, Null)
InternalError == Response(500, "Internal server error")

InTransaction == {"update", "profile", "check", "checkUpdate", "commit"}

DocumentNeverLocked(i, id) == FALSE

\* the row lock another open transaction holds
DocumentLocked(i, id) ==
    \E j \in Reviewers \ {i} :
        /\ rpc[j] \in InTransaction
        /\ rtx[j].document # NoRow
        /\ rreq[j].documentId = id

ProfileNeverLocked(i, driverId) == FALSE

\* the lock on the profile row another open transaction has written
ProfileLocked(i, driverId) ==
    \E j \in Reviewers \ {i} :
        /\ rpc[j] \in InTransaction
        /\ rtx[j].profile # NoRow
        /\ rtx[j].document.driver_id = driverId

\* what a statement of transaction i reads
VisibleDocs(i) ==
    [ id \in DOMAIN docs |->
        IF rtx[i].document # NoRow /\ rreq[i].documentId = id
        THEN rtx[i].document ELSE docs[id] ]

VisibleProfile(i, driverId) ==
    IF rtx[i].profile # NoRow THEN rtx[i].profile ELSE profiles[driverId]

RefusalWithoutReasonCheck(rolesClaim, body) ==
    IF ~isAdmin(rolesClaim) THEN Forbidden
    ELSE IF body.status \notin validStatuses THEN InvalidStatus
    ELSE Reviewed

\* the response to a request the handler refuses before it touches the database
Refusal(rolesClaim, body) ==
    IF ~isAdmin(rolesClaim) THEN Forbidden
    ELSE IF body.status \notin validStatuses THEN InvalidStatus
    ELSE IF body.status = "rejected" /\ ~Truthy(body.rejectionReason) THEN ReasonRequired
    ELSE Reviewed

\* handleReviewDocument, lines 234-281: the checks, getDbConnection and BEGIN;
\* NOW() of the transaction is its start time.  The second execution
\* environment takes a request only while the first one is busy.
ReviewRequest(i, rolesClaim, documentId, body) ==
    /\ rpc[i] = "idle"
    /\ i = "a1" \/ rpc["a1"] # "idle"
    /\ ops < MaxOps
    /\ ops' = ops + 1
    /\ IF Refusal(rolesClaim, body) # Reviewed
       THEN /\ resp' = [resp EXCEPT ![i] = Refusal(rolesClaim, body)]
            /\ rreq' = [rreq EXCEPT ![i] = NoRequest]
            /\ rtx' = [rtx EXCEPT ![i] = NoTx]
            /\ UNCHANGED rpc
       ELSE /\ resp' = [resp EXCEPT ![i] = Response(0, Null)]
            /\ rreq' = [rreq EXCEPT ![i] = [documentId |-> documentId, body |-> body]]
            /\ rtx' = [rtx EXCEPT ![i] = [NoTx EXCEPT !.start = now]]
            /\ rpc' = [rpc EXCEPT ![i] = "update"]
    /\ UNCHANGED <<docs, profiles, now, spc, sst, uvars>>

ReviewRollbackKeepingWrites(i) ==
    /\ docs' = VisibleDocs(i)
    /\ rtx' = [rtx EXCEPT ![i] = [NoTx EXCEPT !.undone = (rtx[i].document # NoRow)]]
    /\ rpc' = [rpc EXCEPT ![i] = "idle"]
    /\ resp' = [resp EXCEPT ![i] = InternalError]
    /\ UNCHANGED <<profiles, now, ops, rreq, spc, sst, uvars>>

\* an error thrown inside try: ROLLBACK, then the handler answers 500
ReviewRollback(i) ==
    /\ rtx' = [rtx EXCEPT ![i] = [NoTx EXCEPT !.undone = (rtx[i].document # NoRow)]]
    /\ rpc' = [rpc EXCEPT ![i] = "idle"]
    /\ resp' = [resp EXCEPT ![i] = InternalError]
    /\ UNCHANGED <<docs, profiles, now, ops, rreq, spc, sst, uvars>>

\* lines 284-293: updateDocumentStatus
ReviewUpdateDocument(i) ==
    /\ rpc[i] = "update"
    /\ ~DocumentLocked(i, rreq[i].documentId)
    /\ IF rreq[i].documentId \notin DOMAIN docs
       THEN ReviewRollback(i)
       ELSE /\ rtx' = [rtx EXCEPT
                        ![i].document =
                            UpdatedDocument(docs[rreq[i].documentId], rreq[i].body,
                                            i, rtx[i].start),
                        ![i].moved =
                            (docs[rreq[i].documentId].status = "approved")
                                # (rreq[i].body.status = "approved") ]
            /\ rpc' = [rpc EXCEPT ![i] =
                         IF rreq[i].body.status = "approved" THEN "profile" ELSE "commit"]
            /\ UNCHANGED <<docs, profiles, now, ops, rreq, resp, spc, sst, uvars>>

\* line 297: updateDriverProfile
ReviewUpdateProfile(i) ==
    /\ rpc[i] = "profile"
    /\ LET driverId == rtx[i].document.driver_id
           type == rtx[i].document.document_type
       IN  IF type \in columnMap /\ driverId \in DOMAIN profiles
           THEN /\ ~ProfileLocked(i, driverId)
                /\ rtx' = [rtx EXCEPT ![i].profile =
                             ProfileWithDocument(profiles[driverId], type,
                                                 rreq[i].documentId, rtx[i].start)]
           ELSE UNCHANGED rtx
    /\ rpc' = [rpc EXCEPT ![i] = "check"]
    /\ UNCHANGED <<docs, profiles, now, ops, rreq, resp, spc, sst, uvars>>

\* line 300, lines 185-196: the SELECT of checkAllDocumentsApproved
ReviewCheck(i) ==
    /\ rpc[i] = "check"
    /\ LET driverId == rtx[i].document.driver_id
           check == checkAllDocumentsApproved(VisibleDocs(i), VisibleProfile(i, driverId),
                                              driverId, rtx[i].start)
       IN  /\ rtx' = [rtx EXCEPT
                        ![i].recomputed = TRUE,
                        ![i].allApproved = check.allDocumentsApproved]
           /\ rpc' = [rpc EXCEPT ![i] = IF check.wrote THEN "checkUpdate" ELSE "commit"]
    /\ UNCHANGED <<docs, profiles, now, ops, rreq, resp, spc, sst, uvars>>

\* lines 198-215: the UPDATE of checkAllDocumentsApproved
ReviewCheckUpdate(i) ==
    /\ rpc[i] = "checkUpdate"
    /\ LET driverId == rtx[i].document.driver_id
       IN  IF driverId \in DOMAIN profiles
           THEN /\ ~ProfileLocked(i, driverId)
                /\ rtx' = [rtx EXCEPT ![i].profile =
                             ProfileCompleted(VisibleProfile(i, driverId), rtx[i].start)]
           ELSE UNCHANGED rtx
    /\ rpc' = [rpc EXCEPT ![i] = "commit"]
    /\ UNCHANGED <<docs, profiles, now, ops, rreq, resp, spc, sst, uvars>>

\* COMMIT applied to the committed tables
CommittedDocs(i) == VisibleDocs(i)

CommittedProfiles(i) ==
    [ d \in DOMAIN profiles |->
        IF rtx[i].profile # NoRow /\ rtx[i].document.driver_id = d
        THEN rtx[i].profile ELSE profiles[d] ]

\* lines 302 and 314: COMMIT, then the 200 response
ReviewCommit(i) ==
    /\ rpc[i] = "commit"
    /\ docs' = CommittedDocs(i)
    /\ profiles' = CommittedProfiles(i)
    /\ rpc' = [rpc EXCEPT ![i] = "idle"]
    /\ resp' = [resp EXCEPT ![i] = Reviewed]
    /\ rtx' = [rtx EXCEPT
                 ![i].start = NullTime, ![i].document = NoRow, ![i].profile = NoRow,
                 ![i].overlapped =
                     \E j \in Reviewers \ {i} :
                         /\ rpc[j] \in InTransaction
                         /\ rreq[j].documentId = rreq[i].documentId ]
    /\ UNCHANGED <<now, ops, rreq, spc, sst, uvars>>

\* lines 324-327: a statement (or getDbConnection) fails
ReviewFail(i) ==
    /\ rpc[i] \in InTransaction
    /\ ReviewRollback(i)

---------------------------------------------------------------------------
(* document-expiry: the scheduled handler.  Its statements are autocommit; *)
(* an UPDATE waits while a row it selects is locked by an open review.     *)

daysAhead == 30

AnyLocked(ids) ==
    \E j \in Reviewers :
        /\ rpc[j] \in InTransaction
        /\ rtx[j].document # NoRow
        /\ rreq[j].documentId \in ids

AnyProfileLocked(driverId) ==
    \E j \in Reviewers :
        /\ rpc[j] \in InTransaction
        /\ rtx[j].profile # NoRow
        /\ rtx[j].document.driver_id = driverId

IsExpiredOrExpiresToday(row, today) ==
    /\ row.status = "approved"
    /\ row.expiry_date # NullTime
    /\ row.expiry_date <= today

\* the WHERE clause of markExpiredDocuments
IsExpired(row, today) ==
    /\ row.status = "approved"
    /\ row.expiry_date # NullTime
    /\ row.expiry_date < today

ExpiredSelection(table, today) == { id \in DOMAIN table : IsExpired(table[id], today) }

\* the UPDATE of markExpiredDocuments
MarkExpired(table, t) ==
    [ id \in DOMAIN table |->
        IF IsExpired(table[id], t)
        THEN [table[id] EXCEPT !.status = "expired", !.updated_at = t]
        ELSE table[id] ]

IsExpiringNotifiedOrNot(row, today) ==
    /\ row.status = "approved"
    /\ row.expiry_date # NullTime
    /\ today <= row.expiry_date
    /\ row.expiry_date <= today + daysAhead

\* the WHERE clause of findExpiringDocuments
IsExpiring(row, today) ==
    /\ row.status = "approved"
    /\ row.expiry_date # NullTime
    /\ today <= row.expiry_date
    /\ row.expiry_date <= today + daysAhead
    /\ row.expiration_notified_at = NullTime

ExpiringSelection(table, today) == { id \in DOMAIN table : IsExpiring(table[id], today) }

MarkEveryRowNotified(table, ids, t) ==
    [ id \in DOMAIN table |->
        [table[id] EXCEPT !.expiration_notified_at = t, !.updated_at = t] ]

\* the UPDATE of markNotificationSent
MarkNotified(table, ids, t) ==
    [ id \in DOMAIN table |->
        IF id \in ids
        THEN [table[id] EXCEPT !.expiration_notified_at = t, !.updated_at = t]
        ELSE table[id] ]

DriverOfEachDocument(table, ids) ==
    [ d \in Drivers |-> Cardinality({ id \in ids : table[id].driver_id = d }) ]

\* [...new Set(expiredDocs.map(d => d.driver_id))]: how many times the loop
\* of updateDriverProfilesForExpiredDocs will visit each driver (the order of
\* the rows that RETURNING yields, and so of the loop, is not fixed)
DistinctDrivers(table, ids) ==
    [ d \in Drivers |-> IF \E id \in ids : table[id].driver_id = d THEN 1 ELSE 0 ]

\* the loop has one last visit left, to driverId
LastVisit(driverIds, driverId) ==
    /\ driverIds[driverId] = 1
    /\ \A d \in Drivers \ {driverId} : driverIds[d] = 0

\* one round of the loop of updateDriverProfilesForExpiredDocs as one function
\* of the rows it reads
checkExpiredDriver(table, row, driverId, t) ==
    IF ~allApproved(table, driverId)
    THEN [ profile |-> ProfileIncomplete(row, t), wrote |-> TRUE ]
    ELSE [ profile |-> row, wrote |-> FALSE ]

\* lines 188-201: the handler starts and connects
SweepStart ==
    /\ spc = "idle"
    /\ ops < MaxOps
    /\ ops' = ops + 1
    /\ spc' = "mark"
    /\ sst' = NoSweep
    /\ UNCHANGED <<docs, profiles, now, rpc, rreq, rtx, resp, uvars>>

SweepDone(st) == [st EXCEPT !.statusCode = 200]

\* lines 205-207: markExpiredDocuments
SweepMarkExpired ==
    /\ spc = "mark"
    /\ ~AnyLocked(ExpiredSelection(docs, now))
    /\ docs' = MarkExpired(docs, now)
    /\ sst' = [sst EXCEPT
                 !.expiredDocs = ExpiredSelection(docs, now),
                 !.driverIds = DistinctDrivers(docs, ExpiredSelection(docs, now)),
                 !.expiredDocuments = Cardinality(ExpiredSelection(docs, now))]
    /\ spc' = IF ExpiredSelection(docs, now) = {} THEN "find" ELSE "check"
    /\ UNCHANGED <<profiles, now, ops, rpc, rreq, rtx, resp, uvars>>

\* lines 131-144: the next driver of the loop and its check query
SweepCheck(driverId) ==
    /\ spc = "check"
    /\ sst.driverIds[driverId] > 0
    /\ IF ~checkExpiredDriver(docs, profiles[driverId], driverId, now).wrote
       THEN /\ sst' = [sst EXCEPT
                         !.driverIds[driverId] = @ - 1,
                         !.recomputed = Append(@, driverId),
                         !.profilesUpdated =
                             IF LastVisit(sst.driverIds, driverId)
                             THEN sst.updatedProfiles ELSE @]
            /\ spc' = IF LastVisit(sst.driverIds, driverId) THEN "find" ELSE "check"
       ELSE /\ sst' = [sst EXCEPT
                         !.current = driverId,
                         !.recomputed = Append(@, driverId)]
            /\ spc' = "update"
    /\ UNCHANGED <<docs, profiles, now, ops, rpc, rreq, rtx, resp, uvars>>

\* lines 146-163: the profile UPDATE of the current driver; line 213 after the loop
SweepUpdateProfile ==
    /\ spc = "update"
    /\ ~AnyProfileLocked(sst.current)
    /\ profiles' =
         IF sst.current \in DOMAIN profiles
         THEN [profiles EXCEPT ![sst.current] = ProfileIncomplete(@, now)]
         ELSE profiles
    /\ sst' = [sst EXCEPT
                 !.driverIds[sst.current] = @ - 1,
                 !.current = Null,
                 !.updatedProfiles = @ + 1,
                 !.profilesUpdated =
                     IF LastVisit(sst.driverIds, sst.current)
                     THEN sst.updatedProfiles + 1 ELSE @]
    /\ spc' = IF LastVisit(sst.driverIds, sst.current) THEN "find" ELSE "check"
    /\ UNCHANGED <<docs, now, ops, rpc, rreq, rtx, resp, uvars>>

\* lines 219-221: findExpiringDocuments
SweepFindExpiring ==
    /\ spc = "find"
    /\ sst' = IF ExpiringSelection(docs, now) = {}
              THEN SweepDone(sst)
              ELSE [sst EXCEPT
                      !.expiringDocs = ExpiringSelection(docs, now),
                      !.expiringDocuments = Cardinality(ExpiringSelection(docs, now))]
    /\ spc' = IF ExpiringSelection(docs, now) = {} THEN "idle" ELSE "notify"
    /\ UNCHANGED <<docs, profiles, now, ops, rpc, rreq, rtx, resp, uvars>>

\* lines 226 and 172-183: sendExpirationNotifications
SweepSendNotifications ==
    /\ spc = "notify"
    /\ sst' = [sst EXCEPT !.notificationsSent = Cardinality(sst.expiringDocs)]
    /\ spc' = "stamp"
    /\ UNCHANGED <<docs, profiles, now, ops, rpc, rreq, rtx, resp, uvars>>

\* lines 229-231: markNotificationSent, then the 200 response
SweepMarkNotified ==
    /\ spc = "stamp"
    /\ ~AnyLocked(sst.expiringDocs)
    /\ docs' = MarkNotified(docs, sst.expiringDocs, now)
    /\ sst' = SweepDone(sst)
    /\ spc' = "idle"
    /\ UNCHANGED <<profiles, now, ops, rpc, rreq, rtx, resp, uvars>>

\* lines 245-257: an awaited call inside try (a statement, getDbConnection,
\* sendExpirationNotifications) throws; the handler answers 500
SweepFail ==
    /\ spc \in {"mark", "check", "update", "find", "notify", "stamp"}
    /\ sst' = [sst EXCEPT !.errors = 1, !.statusCode = 500]
    /\ spc' = "idle"
    /\ UNCHANGED <<docs, profiles, now, ops, rpc, rreq, rtx, resp, uvars>>

---------------------------------------------------------------------------
(* The clock *)

\* The clock counts days; an invocation (at most lambda_timeout seconds) runs
\* within one day.
Tick ==
    /\ now < MaxTime
    /\ spc = "idle"
    /\ \A i \in Reviewers : rpc[i] = "idle"
    /\ now' = now + 1
    /\ UNCHANGED <<docs, profiles, ops, rpc, rreq, rtx, resp, spc, sst, uvars>>

---------------------------------------------------------------------------

Next ==
    \/ \E i \in Reviewers, rolesClaim \in RolesClaims,
          documentId \in DocumentIdInputs, body \in ReviewBodies :
          ReviewRequest(i, rolesClaim, documentId, body)
    \/ \E i \in Reviewers : ReviewUpdateDocument(i)
    \/ \E i \in Reviewers : ReviewUpdateProfile(i)
    \/ \E i \in Reviewers : ReviewCheck(i)
    \/ \E i \in Reviewers : ReviewCheckUpdate(i)
    \/ \E i \in Reviewers : ReviewCommit(i)
    \/ \E i \in Reviewers : ReviewFail(i)
    \/ SweepStart
    \/ SweepMarkExpired
    \/ \E d \in Drivers : SweepCheck(d)
    \/ SweepUpdateProfile
    \/ SweepFindExpiring
    \/ SweepSendNotifications
    \/ SweepMarkNotified
    \/ SweepFail
    \/ Tick

Spec == Init /\ [][Next]_vars

---------------------------------------------------------------------------
(* document-upload: the driver-facing handler.  Each of its statements is  *)
(* autocommit and reads committed rows.                                    *)

uploadExpiresIn == 900
viewUrlExpiresIn == 3600
MaxFileSize == 10 * 1024 * 1024

validTypes ==
    {"license", "license_back", "insurance", "registration", "inspection", "profile_photo"}

\* claims['custom:tenant_id'] of the callers (absent for some)
TenantIds == {Null, "t1"}

\* request bodies of POST /drivers/documents/upload; an absent fileName is <<>>
FileNames == { <<"a", " ", "b">>, <<"a", "_", "b">>, <<>> }

UploadBodies ==
    [ documentType : {"license", "profile_photo", "selfie", Null},
      fileName : FileNames,
      contentType : {"image/png", Null},
      fileSize : {0, MaxFileSize + 1} ]

\* ids that uuid_generate_v4() gives the rows inserted by the modelled uploads
NewDocIds == <<"doc6", "doc7", "doc8", "doc9">>

FreshIds(table) == { k \in 1 .. Len(NewDocIds) : NewDocIds[k] \notin DOMAIN table }

FreshId(table) ==
    NewDocIds[CHOOSE k \in FreshIds(table) : \A m \in FreshIds(table) : k <= m]

MissingFields ==
    Response(400, "Missing required fields: document_type, file_name, content_type")
InvalidDocumentType == Response(400, "Invalid documentType")
FileTooLarge == Response(400, "File size exceeds 10MB limit")
MissingDocumentId == Response(400, "Missing documentId")
DocumentNotFound == Response(404, "Document not found")
QueryForbidden == Response(403, "Forbidden")

UploadRefusalWithoutTypeCheck(body) ==
    IF ~Truthy(body.documentType) \/ body.fileName = <<>> \/ ~Truthy(body.contentType)
    THEN MissingFields
    ELSE IF body.fileSize # 0 /\ body.fileSize > MaxFileSize THEN FileTooLarge
    ELSE Reviewed

\* handleUploadRequest, lines 176-212: the checks before anything is issued
UploadRefusal(body) ==
    IF ~Truthy(body.documentType) \/ body.fileName = <<>> \/ ~Truthy(body.contentType)
    THEN MissingFields
    ELSE IF body.documentType \notin validTypes THEN InvalidDocumentType
    ELSE IF body.fileSize # 0 /\ body.fileSize > MaxFileSize THEN FileTooLarge
    ELSE Reviewed

\* a pre-signed URL: what it lets its holder do, on which key, for how long
Grant(op, method, key, expiresIn, holder) ==
    [ op |-> op, method |-> method, key |-> key, expiresIn |-> expiresIn,
      holder |-> holder ]

\* generatePresignedUrl: a PutObjectCommand signed for 15 minutes
generatePresignedUrl(driverId, documentType, fileName, tenantId, t) ==
    Grant("upload", "PUT", s3Key(tenantId, driverId, documentType, t, fileName),
          uploadExpiresIn, driverId)

\* the row createDocumentRecord inserts
NewDocument(driverId, tenantId, documentType, key, t) ==
    [ PendingRow(driverId, documentType, t) EXCEPT !.tenant_id = tenantId, !.s3_key = key ]

Inserted(table, id, row) ==
    [ x \in DOMAIN table \cup {id} |-> IF x = id THEN row ELSE table[x] ]

\* handleUploadRequest
UploadRequest(userId, tenantId, body) ==
    /\ ops < MaxOps
    /\ ops' = ops + 1
    /\ IF UploadRefusal(body) # Reviewed
       THEN /\ uresp' = UploadRefusal(body)
            /\ UNCHANGED <<docs, grants>>
       ELSE LET grant == generatePresignedUrl(userId, body.documentType, body.fileName,
                                              tenantId, now)
                id == FreshId(docs)
            IN  /\ FreshIds(docs) # {}
                /\ docs' = Inserted(docs, id,
                                    NewDocument(userId, tenantId, body.documentType,
                                                grant.key, now))
                /\ grants' = Append(grants, grant)
                /\ uresp' = [ statusCode |-> 200, error |-> Null, document_id |-> id,
                              s3_key |-> grant.key, expires_in |-> uploadExpiresIn ]
    /\ UNCHANGED <<profiles, now, rpc, rreq, rtx, resp, spc, sst, vq>>

\* handleUploadRequest when getDbConnection or the INSERT throws: the URL
\* that was signed is not returned
UploadRequestFails(body) ==
    /\ ops < MaxOps
    /\ ops' = ops + 1
    /\ UploadRefusal(body) = Reviewed
    /\ uresp' = InternalError
    /\ UNCHANGED <<docs, profiles, now, rpc, rreq, rtx, resp, spc, sst, grants, vq>>

\* handleGetDocument: the row and a URL signed for one hour.  The command
\* that is signed is a PutObjectCommand.
GetDocument(userId, documentId) ==
    /\ ops < MaxOps
    /\ ops' = ops + 1
    /\ IF documentId = Null
       THEN uresp' = MissingDocumentId /\ UNCHANGED grants
       ELSE IF documentId \notin DOMAIN docs \/ docs[documentId].driver_id # userId
       THEN uresp' = DocumentNotFound /\ UNCHANGED grants
       ELSE /\ grants' = Append(grants,
                    Grant("get", "PUT", docs[documentId].s3_key, viewUrlExpiresIn, userId))
            /\ uresp' = [ statusCode |-> 200, error |-> Null,
                          document |-> docs[documentId],
                          viewUrlExpiresIn |-> viewUrlExpiresIn ]
    /\ UNCHANGED <<docs, profiles, now, rpc, rreq, rtx, resp, spc, sst, vq>>

\* rows.find(d => d.document_type === docType) on rows ORDER BY created_at
\* DESC: a newest row of the type (which one, among equal created_at, the
\* database decides)
NewestOfType(table, driverId, docType) ==
    { id \in DOMAIN table :
        /\ table[id].driver_id = driverId
        /\ table[id].document_type = docType
        /\ \A other \in DOMAIN table :
              (table[other].driver_id = driverId /\ table[other].document_type = docType)
                  => table[other].created_at <= table[id].created_at }

DocStatusValues == {"pending", "processing", "approved", "rejected", "expired", "missing"}

\* the docStatuses the loop over requiredDocs can build
docStatuses(table, driverId) ==
    { f \in [requiredDocs -> DocStatusValues] :
        \A docType \in requiredDocs :
            IF NewestOfType(table, driverId, docType) = {}
            THEN f[docType] = "missing"
            ELSE \E id \in NewestOfType(table, driverId, docType) :
                    f[docType] = table[id].status }

missingDocs(f) == { docType \in requiredDocs : f[docType] # "approved" }

\* the body of the 200 response of handleGetVerificationStatus
VerificationStatus(driverId, f, profs) ==
    [ statusCode |-> 200, error |-> Null, driverId |-> driverId,
      verificationComplete |-> (missingDocs(f) = {}),
      documentsComplete |->
          IF driverId \in DOMAIN profs THEN profs[driverId].documents_complete ELSE FALSE,
      verifiedAt |->
          IF driverId \in DOMAIN profs THEN profs[driverId].documents_verified_at
          ELSE NullTime,
      requiredDocuments |-> f,
      missingDocuments |-> missingDocs(f) ]

\* handleGetVerificationStatus, lines 344-367: the owner check and docsQuery
VerificationQueryDocs(userId, driverId) ==
    /\ vq = NoQuery
    /\ ops < MaxOps
    /\ ops' = ops + 1
    /\ IF driverId # userId
       THEN uresp' = QueryForbidden /\ UNCHANGED vq
       ELSE /\ \E f \in docStatuses(docs, driverId) :
                  vq' = [ driverId |-> driverId, requiredDocuments |-> f ]
            /\ uresp' = NoResponse
    /\ UNCHANGED <<docs, profiles, now, rpc, rreq, rtx, resp, spc, sst, grants>>

\* lines 369-406: profileQuery and the response
VerificationQueryProfile ==
    /\ vq # NoQuery
    /\ uresp' = VerificationStatus(vq.driverId, vq.requiredDocuments, profiles)
    /\ vq' = NoQuery
    /\ UNCHANGED <<docs, profiles, now, ops, rpc, rreq, rtx, resp, spc, sst, grants>>

\* lines 452-465: profileQuery throws; the handler answers 500
VerificationQueryFails ==
    /\ vq # NoQuery
    /\ uresp' = InternalError
    /\ vq' = NoQuery
    /\ UNCHANGED <<docs, profiles, now, ops, rpc, rreq, rtx, resp, spc, sst, grants>>

EveryDocument(table, userId) == DOMAIN table

\* the rows of SELECT ... FROM driver_documents WHERE driver_id = $1
OwnDocuments(table, userId) == { id \in DOMAIN table : table[id].driver_id = userId }

\* handleListDocuments: the caller's rows (their order, created_at DESC, is
\* left out) and their number
ListDocuments(userId) ==
    /\ ops < MaxOps
    /\ ops' = ops + 1
    /\ uresp' = [ statusCode |-> 200, error |-> Null,
                  documents |-> [ id \in OwnDocuments(docs, userId) |-> docs[id] ],
                  total |-> Cardinality(OwnDocuments(docs, userId)) ]
    /\ UNCHANGED <<docs, profiles, now, rpc, rreq, rtx, resp, spc, sst, grants, vq>>

\* the reviews that run next to the upload handler
UploadReviewBodies ==
    { body \in ReviewBodies : body.status \in {"approved", "pending"} /\ body.notes = Null }

\* the documents they address: two initial ones and the first uploaded one
UploadReviewIdInputs == {"doc3", "doc4", NewDocIds[1]}

\* documentId path parameters of GET /drivers/documents/{documentId}
GetDocumentIdInputs == {"doc4", "doc5", NewDocIds[1], MissingDocId, Null}

\* The upload handler next to admin reviews
UploadNext ==
    \/ \E userId \in Drivers, tenantId \in TenantIds, body \in UploadBodies :
          UploadRequest(userId, tenantId, body)
    \/ \E body \in UploadBodies : UploadRequestFails(body)
    \/ \E userId \in Drivers, documentId \in GetDocumentIdInputs :
          GetDocument(userId, documentId)
    \/ \E userId \in Drivers : ListDocuments(userId)
    \/ \E userId \in Drivers, driverId \in Drivers : VerificationQueryDocs(userId, driverId)
    \/ VerificationQueryProfile
    \/ VerificationQueryFails
    \/ \E i \in Reviewers, documentId \in UploadReviewIdInputs, body \in UploadReviewBodies :
          ReviewRequest(i, RoleAdmin, documentId, body)
    \/ \E i \in Reviewers : ReviewUpdateDocument(i)
    \/ \E i \in Reviewers : ReviewUpdateProfile(i)
    \/ \E i \in Reviewers : ReviewCheck(i)
    \/ \E i \in Reviewers : ReviewCheckUpdate(i)
    \/ \E i \in Reviewers : ReviewCommit(i)
    \/ Tick

UploadSpec == Init /\ [][UploadNext]_vars

---------------------------------------------------------------------------
(* Properties *)

\* no invocation is in flight
Quiescent == spc = "idle" /\ \A i \in Reviewers : rpc[i] = "idle"

\* the inputs of ReviewRequest
Callers == Reviewers \X RolesClaims \X DocumentIdInputs \X ReviewBodies

\* C1: after any sequence of completed operations, every driver with a
\* profile row has documents_complete = TRUE exactly when each required type
\* has an approved document of that driver.
C1_CompleteIffAllApproved ==
    Quiescent =>
        \A d \in DOMAIN profiles :
            profiles[d].documents_complete = allApproved(docs, d)

\* invocation i moved in this step
Acted(i) == rpc'[i] # rpc[i] \/ rtx'[i] # rtx[i] \/ resp'[i] # resp[i]

\* C2: a review is all-or-nothing.  While its transaction is open no step of
\* it changes a committed row, an error rolls it back with both tables as
\* they are, and COMMIT publishes the document row and the profile row it
\* wrote in one step: when the recomputation found the driver complete, the
\* approved status and documents_complete = TRUE become visible together.
C2_ReviewAtomic ==
    [][ \A i \in Reviewers :
          (rpc[i] \in InTransaction /\ Acted(i)) =>
              IF resp'[i] = Reviewed
              THEN /\ rpc[i] = "commit"
                   /\ docs' = [docs EXCEPT ![rreq[i].documentId] = rtx[i].document]
                   /\ \A d \in DOMAIN profiles :
                        profiles'[d] =
                            IF d = rtx[i].document.driver_id /\ rtx[i].profile # NoRow
                            THEN rtx[i].profile ELSE profiles[d]
                   /\ rtx[i].allApproved =>
                        /\ docs'[rreq[i].documentId].status = "approved"
                        /\ profiles'[rtx[i].document.driver_id].documents_complete
              ELSE /\ docs' = docs
                   /\ profiles' = profiles
                   /\ resp'[i] = InternalError => rpc'[i] = "idle" /\ rtx'[i].document = NoRow
      ]_vars

\* C2 witness: two reviews ran side by side.  One failed after it had written
\* the document row: the committed row shows nothing of what it wrote.  The
\* other approved the driver's last missing document and committed: the
\* approved status and documents_complete = TRUE are both there.
C2_Witness ==
    \E i \in Reviewers, j \in Reviewers :
        /\ resp[i] = InternalError
        /\ rtx[i].undone
        /\ rreq[i].body.notes # Null
        /\ docs[rreq[i].documentId].notes = Null
        /\ docs[rreq[i].documentId].verified_by # i
        /\ resp[j] = Reviewed
        /\ rtx[j].allApproved
        /\ docs[rreq[j].documentId].status = "approved"
        /\ profiles[docs[rreq[j].documentId].driver_id].documents_complete

\* C3: in every reachable state a document has a rejection_reason exactly when
\* its status is rejected.
C3_ReasonIffRejected ==
    \A id \in DOMAIN docs :
        (docs[id].rejection_reason # Null) <=> (docs[id].status = "rejected")

\* C4: a review request of an admitted caller with status rejected and no
\* (or an empty) rejectionReason is answered 400 with the validation error,
\* and whoever sends such a request, it is refused and no document row and no
\* profile row changes.
C4_RejectedNeedsReason ==
    [][ \A c \in Callers :
          ( /\ ReviewRequest(c[1], c[2], c[3], c[4])
            /\ c[4].status = "rejected"
            /\ ~Truthy(c[4].rejectionReason) ) =>
              /\ isAdmin(c[2]) => resp'[c[1]] = ReasonRequired
              /\ resp'[c[1]].statusCode \in {400, 403}
              /\ rpc'[c[1]] = "idle"
              /\ docs' = docs
              /\ profiles' = profiles
      ]_vars

\* C4 witness: a reviewer got the validation error for a missing reason.
C4_Witness ==
    \E i \in Reviewers : resp[i] = ReasonRequired /\ rpc[i] = "idle"

\* the admin capability: an "admin" entry in the caller's roles list
HasAdminRole(rolesClaim) ==
    \E k \in 1 .. Len(extractRoles(rolesClaim)) : extractRoles(rolesClaim)[k] = RoleAdmin

\* C5: a review request of a caller whose roles list has no "admin" entry is
\* answered 403 before anything is changed.
C5_NonAdminForbidden ==
    [][ \A c \in Callers :
          (ReviewRequest(c[1], c[2], c[3], c[4]) /\ ~HasAdminRole(c[2])) =>
              /\ resp'[c[1]] = Forbidden
              /\ rpc'[c[1]] = "idle"
              /\ docs' = docs
              /\ profiles' = profiles
      ]_vars

\* C6: every operation that moved a document into or out of approved has
\* recomputed the owner's aggregate: a committed review that changed whether
\* the document is approved ran checkAllDocumentsApproved, and a completed
\* sweep ran the check of every driver of a demoted document.
C6_MoveRecomputes ==
    /\ \A i \in Reviewers :
          (rpc[i] = "idle" /\ resp[i] = Reviewed /\ rtx[i].moved) => rtx[i].recomputed
    /\ sst.statusCode = 200 =>
          \A id \in sst.expiredDocs :
              \E k \in 1 .. Len(sst.recomputed) : sst.recomputed[k] = docs[id].driver_id

\* C7: on the rows of any reachable state, a second recomputation for a driver
\* right after a first one (in the same transaction or a later one, the
\* documents unchanged) writes nothing, leaves the profile as the first left
\* it and returns what the first returned; likewise for the sweep's round.
C7_RecomputeIdempotent ==
    \A d \in DOMAIN profiles :
        \A t1 \in now .. MaxTime, t2 \in now .. MaxTime :
            t1 <= t2 =>
                LET first == checkAllDocumentsApproved(docs, profiles[d], d, t1)
                    second == checkAllDocumentsApproved(docs, first.profile, d, t2)
                    round1 == checkExpiredDriver(docs, profiles[d], d, t1)
                    round2 == checkExpiredDriver(docs, round1.profile, d, t2)
                IN  /\ ~second.wrote
                    /\ second.profile = first.profile
                    /\ second.allDocumentsApproved = first.allDocumentsApproved
                    /\ second.missingDocuments = first.missingDocuments
                    /\ ~round2.wrote
                    /\ round2.profile = round1.profile

\* both reviews of the same document were inside their transactions at the
\* same time and both committed; `first` committed first, `last` last
Raced(first, last) ==
    /\ first # last
    /\ Quiescent
    /\ resp[first] = Reviewed /\ resp[last] = Reviewed
    /\ rtx[first].overlapped /\ ~rtx[last].overlapped
    /\ rreq[first].documentId = rreq[last].documentId
    /\ rreq[first].body.status # rreq[last].body.status

\* the five fields of the row are those that review call i sent
AllFrom(row, i) ==
    /\ row.status = rreq[i].body.status
    /\ row.verified_by = i
    /\ row.stamped_by = i
    /\ row.rejection_reason = OrNull(rreq[i].body.rejectionReason)
    /\ row.notes = OrNull(rreq[i].body.notes)

C9_DemotionExact ==
    [][ (spc = "mark" /\ spc' \in {"check", "find"}) =>
          /\ \A id \in DOMAIN docs :
                docs'[id].status =
                    IF /\ docs[id].status = "approved"
                       /\ docs[id].expiry_date # NullTime
                       /\ docs[id].expiry_date < now
                    THEN "expired" ELSE docs[id].status
          /\ sst'.expiredDocuments =
                Cardinality({ id \in DOMAIN docs : docs'[id].status # docs[id].status })
          /\ ExpiredSelection(docs', now') = {}
          /\ MarkExpired(docs', now') = docs'
      ]_vars

\* C9 witness: a pass has demoted documents and left alone an approved
\* document without expiry_date and a pending one.
C9_Witness ==
    /\ spc \in {"check", "find"}
    /\ sst.expiredDocuments > 0
    /\ \A id \in sst.expiredDocs : docs[id].status = "expired"
    /\ \E id \in DOMAIN docs :
          docs[id].status = "approved" /\ docs[id].expiry_date = NullTime
    /\ \E id \in DOMAIN docs : docs[id].status = "pending"

\* the drivers of the documents the running (or last) pass demoted
DemotedDrivers == { docs[id].driver_id : id \in sst.expiredDocs }

\* C10: a demotion pass never runs the check of a driver twice and never runs
\* it for a driver none of whose documents it demoted; a pass that completes
\* has run it once for each driver of a demoted document.
C10_OneRecomputePerDriver ==
    /\ \A k \in 1 .. Len(sst.recomputed) :
          /\ sst.recomputed[k] \in DemotedDrivers
          /\ \A m \in 1 .. Len(sst.recomputed) :
                sst.recomputed[m] = sst.recomputed[k] => m = k
    /\ sst.statusCode = 200 =>
          { sst.recomputed[k] : k \in 1 .. Len(sst.recomputed) } = DemotedDrivers

\* C10 witness: a completed pass demoted two documents of one driver and one
\* of another and ran two checks.
C10_Witness ==
    /\ sst.statusCode = 200
    /\ \E d \in Drivers :
          Cardinality({ id \in sst.expiredDocs : docs[id].driver_id = d }) >= 2
    /\ Cardinality(DemotedDrivers) = 2
    /\ Len(sst.recomputed) = 2

\* C11: the notification pass selects, and then notifies, only documents
\* whose expiration_notified_at is not set.
C11_NeverRenotifies ==
    [][ /\ (spc = "find" /\ spc' = "notify") =>
              \A id \in sst'.expiringDocs : docs[id].expiration_notified_at = NullTime
        /\ (spc = "notify" /\ spc' = "stamp") =>
              /\ sst'.notificationsSent = Cardinality(sst.expiringDocs)
              /\ \A id \in sst.expiringDocs : docs[id].expiration_notified_at = NullTime
      ]_vars

\* C11 witness: a pass has completed without a notification although a
\* stamped document is still approved and expires within the window.
C11_Witness ==
    /\ sst.statusCode = 200
    /\ sst.notificationsSent = 0
    /\ \E id \in DOMAIN docs :
          /\ docs[id].expiration_notified_at # NullTime
          /\ docs[id].status = "approved"
          /\ now <= docs[id].expiry_date
          /\ docs[id].expiry_date <= now + daysAhead

C13_SweepSkipsFailure ==
    [][ (spc \in {"check", "update"} /\ sst'.errors > sst.errors) =>
            /\ spc' # "idle"
            /\ sst'.statusCode # 500
      ]_vars

\* C16: no step changes the status of an expired document, and no step moves
\* an approved document to pending.
C16_StatusOnlyForward ==
    [][ \A id \in DOMAIN docs :
          /\ docs[id].status = "expired" => docs'[id].status = "expired"
          /\ ~(docs[id].status = "approved" /\ docs'[id].status = "pending")
      ]_vars

\* C17: a review whose documentId matches no row is answered with the
\* not-found kind (404) and changes no document and no profile.
C17_MissingDocumentNotFound ==
    [][ \A i \in Reviewers :
          (ReviewUpdateDocument(i) /\ rreq[i].documentId \notin DOMAIN docs) =>
              /\ resp'[i].statusCode = 404
              /\ docs' = docs
              /\ profiles' = profiles
      ]_vars

\* C14: the verification status query reports verificationComplete exactly
\* when every required type has an approved document of the driver, and
\* missingDocuments is exactly the set of required types without one.
C14_StatusQueryExact ==
    [][ \A d \in Drivers :
          (vq = NoQuery /\ vq' # NoQuery /\ vq'.driverId = d) =>
              LET status == VerificationStatus(d, vq'.requiredDocuments, profiles)
              IN  /\ status.verificationComplete = allApproved(docs, d)
                  /\ status.missingDocuments = missingDocuments(docs, d)
      ]_vars

\* C15: when a review commits the approval of the only required type that was
\* still missing for a driver, a verification status query on the rows it
\* leaves reports verificationComplete, documentsComplete and a verifiedAt.
C15_CompleteAfterLastApproval ==
    [][ \A i \in Reviewers :
          ( /\ rpc[i] = "commit"
            /\ resp'[i] = Reviewed
            /\ rreq[i].body.status = "approved"
            /\ missingDocuments(docs, rtx[i].document.driver_id)
                  = {rtx[i].document.document_type} ) =>
              \A f \in docStatuses(docs', rtx[i].document.driver_id) :
                  LET status == VerificationStatus(rtx[i].document.driver_id, f, profiles')
                  IN  /\ status.verificationComplete
                      /\ status.documentsComplete
                      /\ status.verifiedAt # NullTime
      ]_vars

\* C18: an upload request that is answered 200 has inserted exactly one row,
\* pending, owned by the caller, with the key of the returned grant, and has
\* changed no other row; a request with the document type, file name or
\* content type missing or with a document type outside the enumeration is
\* answered 400, inserts nothing and issues no grant; any other request of
\* allowed size is answered 200.
C18_UploadCreatesOnePending ==
    [][ \A userId \in Drivers, tenantId \in TenantIds, body \in UploadBodies :
          UploadRequest(userId, tenantId, body) =>
              /\ uresp'.statusCode = 200 =>
                    /\ \E id \in DOMAIN docs' \ DOMAIN docs :
                          /\ DOMAIN docs' = DOMAIN docs \cup {id}
                          /\ uresp'.document_id = id
                          /\ docs'[id].status = "pending"
                          /\ docs'[id].driver_id = userId
                          /\ docs'[id].document_type = body.documentType
                          /\ docs'[id].s3_key = uresp'.s3_key
                    /\ \A id \in DOMAIN docs : docs'[id] = docs[id]
                    /\ Len(grants') = Len(grants) + 1
                    /\ SubSeq(grants', 1, Len(grants)) = grants
                    /\ grants'[Len(grants')].key = uresp'.s3_key
                    /\ grants'[Len(grants')].holder = userId
              /\ IF \/ body.documentType \in {Null, ""}
                    \/ body.fileName = <<>>
                    \/ body.contentType \in {Null, ""}
                    \/ body.documentType \notin
                          {"license", "license_back", "insurance", "registration",
                           "inspection", "profile_photo"}
                 THEN /\ uresp'.statusCode = 400
                      /\ docs' = docs
                      /\ grants' = grants
                 ELSE body.fileSize <= MaxFileSize => uresp'.statusCode = 200
      ]_vars

\* C18 witness: an upload was answered 200 and its pending row is there.
C18_Witness ==
    /\ uresp.statusCode = 200
    /\ \E id \in DOMAIN docs \ DocIds :
          /\ uresp = [ statusCode |-> 200, error |-> Null, document_id |-> id,
                       s3_key |-> docs[id].s3_key, expires_in |-> uploadExpiresIn ]
          /\ docs[id].status = "pending"
          /\ \E k \in 1 .. Len(grants) : grants[k].key = docs[id].s3_key

\* C19: no two upload grants, and no two documents, have the same storage
\* key, and every key lies under the [tenantId/]driverId/ prefix of the
\* caller it was issued to.
C19_KeysDistinctUnderPrefix ==
    /\ \A k \in 1 .. Len(grants), m \in 1 .. Len(grants) :
          (k # m /\ grants[k].op = "upload" /\ grants[m].op = "upload")
              => grants[k].key # grants[m].key
    /\ \A id1 \in DOMAIN docs, id2 \in DOMAIN docs :
          id1 # id2 => docs[id1].s3_key # docs[id2].s3_key
    /\ \A id \in DOMAIN docs :
          /\ docs[id].s3_key.driver = docs[id].driver_id
          /\ docs[id].s3_key.tenant = docs[id].tenant_id
    /\ \A k \in 1 .. Len(grants) :
          grants[k].op = "upload" => grants[k].key.driver = grants[k].holder

\* C20: every grant returned by get document permits reading only and lasts
\* 60 minutes; every grant that permits writing was returned by the upload
\* operation and lasts 15 minutes.
C20_ReadGrantOnGet ==
    \A k \in 1 .. Len(grants) :
        /\ grants[k].op = "get" =>
              (grants[k].method = "GET" /\ grants[k].expiresIn = 60 * 60)
        /\ grants[k].method = "PUT" =>
              (grants[k].op = "upload" /\ grants[k].expiresIn = 15 * 60)

\* C21: a committed review to approved or rejected stores the reviewer and
\* the review's timestamp on the document; a committed review to pending or
\* processing leaves the stored verified_by and verified_at as they were.
C21_ReviewerOnlyOnDecision ==
    [][ \A i \in Reviewers :
          (rpc[i] = "commit" /\ resp'[i] = Reviewed) =>
              LET id == rreq[i].documentId
              IN  IF rreq[i].body.status \in {"approved", "rejected"}
                  THEN /\ docs'[id].verified_by = i
                       /\ docs'[id].verified_at = rtx[i].start
                  ELSE /\ docs'[id].verified_by = docs[id].verified_by
                       /\ docs'[id].verified_at = docs[id].verified_at
      ]_vars

\* C22: a committed review leaves document_number and expiry_date as stored
\* when the body does not supply them (an empty string is no value:
\* `|| null`), stores the supplied value otherwise, and sets updated_at to
\* the NOW() of its transaction.
C22_SuppliedFieldsMerged ==
    [][ \A i \in Reviewers :
          (rpc[i] = "commit" /\ resp'[i] = Reviewed) =>
              LET id == rreq[i].documentId
                  body == rreq[i].body
              IN  /\ docs'[id].document_number =
                        IF body.documentNumber \in {Null, ""}
                        THEN docs[id].document_number ELSE body.documentNumber
                  /\ docs'[id].expiry_date =
                        IF body.expiryDate = NullTime
                        THEN docs[id].expiry_date ELSE body.expiryDate
                  /\ docs'[id].updated_at = rtx[i].start
                  /\ docs'[id].updated_at >= docs[id].created_at
      ]_vars

\* C22 witness: one committed review replaced a stored document number and a
\* missing expiry date by the supplied ones, another one supplied neither
\* and the stored ones are still there.
C22_Witness ==
    \E i \in Reviewers, j \in Reviewers :
        /\ resp[i] = Reviewed /\ rpc[i] = "idle"
        /\ rreq[i].body.documentNumber = "N2"
        /\ docs[rreq[i].documentId].document_number = "N2"
        /\ resp[j] = Reviewed /\ rpc[j] = "idle"
        /\ rreq[j].body.documentNumber = Null
        /\ rreq[j].body.expiryDate = NullTime
        /\ docs[rreq[j].documentId].document_number = "N1"
        /\ docs[rreq[j].documentId].expiry_date = 0

\* C23: a review request is let past the admin check exactly when the
\* caller's roles list has an "admin" entry: it is answered 403 if and only
\* if no entry of the list is "admin", whatever longer role names the list
\* holds.
C23_AdminIffAdminRole ==
    [][ \A c \in Callers :
          ReviewRequest(c[1], c[2], c[3], c[4]) =>
              ((resp'[c[1]] = Forbidden) <=> ~HasAdminRole(c[2]))
      ]_vars

\* C24: a step changes the status of a profile only from pending_documents
\* to active, in the COMMIT of a review whose recomputation found the driver
\* complete, or from active to pending_documents, in the profile UPDATE of a
\* sweep whose check found the driver incomplete; a profile in any other
\* status keeps it through every step of a review or a sweep.
C24_StatusFlipsOnly ==
    [][ \A d \in DOMAIN profiles :
          profiles'[d].status # profiles[d].status =>
              \/ /\ profiles[d].status = "pending_documents"
                 /\ profiles'[d].status = "active"
                 /\ profiles'[d].documents_complete
                 /\ \E i \in Reviewers :
                       /\ rpc[i] = "commit"
                       /\ resp'[i] = Reviewed
                       /\ rtx[i].allApproved
                       /\ rtx[i].document.driver_id = d
              \/ /\ profiles[d].status = "active"
                 /\ profiles'[d].status = "pending_documents"
                 /\ ~profiles'[d].documents_complete
                 /\ spc = "update"
                 /\ sst.current = d
                 /\ sst.expiredDocs # {}
      ]_vars

\* C24 witness: a sweep has written both profiles.  Driver d1, who had been
\* complete and active, is back in pending_documents; driver d2, who was
\* suspended, still is.
C24_Witness ==
    /\ sst.updatedProfiles = 2
    /\ profiles["d1"].documents_verified_at # NullTime
    /\ profiles["d1"].status = "pending_documents"
    /\ ~profiles["d1"].documents_complete
    /\ profiles["d2"].status = "suspended"
    /\ profiles["d2"].updated_at = now
    /\ now > 0

\* driver d was visited by the loop of the sweep
Touched(d) == \E k \in 1 .. Len(sst.recomputed) : sst.recomputed[k] = d

\* C25: when exactly one sweep and one approving review of a document of a
\* driver the sweep visited have run, in any interleaving, and both have
\* finished, the driver's documents_complete is what the final document
\* statuses give.
C25_SweepReviewRace ==
    \A i \in Reviewers :
        ( /\ Quiescent
          /\ ops = 2
          /\ sst.statusCode = 200
          /\ resp[i] = Reviewed
          /\ rreq[i].body.status = "approved"
          /\ rreq[i].documentId \in DOMAIN docs
          /\ Touched(docs[rreq[i].documentId].driver_id) ) =>
            LET d == docs[rreq[i].documentId].driver_id
            IN  profiles[d].documents_complete = allApproved(docs, d)

\* reviews i and j approved two different required documents of driver d,
\* both were inside their transactions at the same time, and both committed
ApprovedTogether(i, j, d) ==
    /\ i # j
    /\ rpc[i] = "idle" /\ rpc[j] = "idle"
    /\ resp[i] = Reviewed /\ resp[j] = Reviewed
    /\ rreq[i].body.status = "approved" /\ rreq[j].body.status = "approved"
    /\ rreq[i].documentId # rreq[j].documentId
    /\ docs[rreq[i].documentId].driver_id = d
    /\ docs[rreq[j].documentId].driver_id = d
    /\ docs[rreq[i].documentId].document_type \in requiredDocs
    /\ docs[rreq[j].documentId].document_type \in requiredDocs

\* C26: after two reviews that approved two different required documents of
\* the same driver have both committed, if every required type of the driver
\* is approved then documents_complete is TRUE, however the two transactions
\* interleaved.
C26_ConcurrentApprovalsComplete ==
    \A i \in Reviewers, j \in Reviewers, d \in DOMAIN profiles :
        (ApprovedTogether(i, j, d) /\ spc = "idle" /\ ops = 2 /\ allApproved(docs, d))
            => profiles[d].documents_complete

\* C26 witness: the two reviews approved the two documents the driver still
\* lacked; the driver is complete and the stamp is the second commit's.
C26_Witness ==
    \E i \in Reviewers, j \in Reviewers :
        /\ ApprovedTogether(i, j, "d1")
        /\ ops = 2
        /\ allApproved(docs, "d1")
        /\ docs[rreq[i].documentId].verified_by = i
        /\ docs[rreq[j].documentId].verified_by = j
        /\ profiles["d1"].documents_complete
        /\ profiles["d1"].status = "active"

\* driver d has a required document that a sweep demoted and no approved
\* document of every required type
LostApproval(d) ==
    /\ ~allApproved(docs, d)
    /\ \E id \in DOMAIN docs :
          /\ docs[id].driver_id = d
          /\ docs[id].document_type \in requiredDocs
          /\ docs[id].status = "expired"

\* C27: when a sweep run has ended with success and no review has run at
\* all, every driver who lost a required approved document to a sweep (to
\* this run or to an earlier one that failed after the demotion) has
\* documents_complete = FALSE.
C27_LaterSweepRepairs ==
    ( /\ spc = "idle"
      /\ sst.statusCode = 200
      /\ \A i \in Reviewers : rpc[i] = "idle" /\ resp[i] = Response(0, Null) ) =>
        \A d \in DOMAIN profiles : LostApproval(d) => ~profiles[d].documents_complete

\* C28: a step changes documents_verified_at of a profile only when it takes
\* documents_complete of that profile from FALSE to TRUE.
C28_VerifiedAtOnTransition ==
    [][ \A d \in DOMAIN profiles :
          profiles'[d].documents_verified_at # profiles[d].documents_verified_at =>
              (~profiles[d].documents_complete /\ profiles'[d].documents_complete)
      ]_vars

\* C29: in every reachable state the status of every stored document is one
\* of pending, under_review, approved, rejected, expired.
C29_StatusInEnumeration ==
    \A id \in DOMAIN docs :
        docs[id].status \in {"pending", "under_review", "approved", "rejected", "expired"}

\* C30: list answers with exactly the rows whose driver_id is the caller;
\* get answers 200, with the row and a grant on its key, only for a document
\* of the caller, and otherwise answers 404 (400 without an id) and issues
\* nothing; a verification status query for another driver's id is answered
\* 403 and reads nothing.
C30_OwnDataOnly ==
    [][ \A userId \in Drivers :
          /\ ListDocuments(userId) =>
                /\ \A id \in DOMAIN uresp'.documents :
                      uresp'.documents[id].driver_id = userId
                /\ \A id \in DOMAIN docs :
                      docs[id].driver_id = userId =>
                          /\ id \in DOMAIN uresp'.documents
                          /\ uresp'.documents[id] = docs[id]
                /\ uresp'.total = Cardinality(DOMAIN uresp'.documents)
          /\ \A documentId \in GetDocumentIdInputs :
                GetDocument(userId, documentId) =>
                    IF documentId \in DOMAIN docs /\ docs[documentId].driver_id = userId
                    THEN /\ uresp'.statusCode = 200
                         /\ uresp'.document = docs[documentId]
                         /\ grants' = Append(grants, grants'[Len(grants')])
                         /\ grants'[Len(grants')].key = docs[documentId].s3_key
                         /\ grants'[Len(grants')].key.driver = userId
                         /\ grants'[Len(grants')].holder = userId
                    ELSE /\ uresp' = IF documentId = Null THEN MissingDocumentId
                                     ELSE DocumentNotFound
                         /\ grants' = grants
          /\ \A driverId \in Drivers \ {userId} :
                VerificationQueryDocs(userId, driverId) =>
                    /\ uresp' = QueryForbidden
                    /\ vq' = NoQuery
      ]_vars

\* C30 witness: driver d2 got its document doc5 with a grant on its key,
\* then listed its documents and got doc5 alone, while the table holds the
\* documents of driver d1 too.
C30_Witness ==
    /\ Len(grants) = 1
    /\ grants[1].op = "get"
    /\ grants[1].holder = "d2"
    /\ grants[1].key = docs["doc5"].s3_key
    /\ uresp = [ statusCode |-> 200, error |-> Null,
                 documents |-> [ id \in {"doc5"} |-> docs[id] ], total |-> 1 ]
    /\ \E id \in DOMAIN docs : docs[id].driver_id = "d1"

===========================================================================
